---- MODULE Spec2Model ----
(***************************************************************************)
(* A model of client.py, the reverse-tunnel client of my_turn:             *)
(*   BaseTcpClient, BaseDataClient, LocalClient, LocalDataClient,          *)
(*   MyTurnClient and ForeverMyTurnClient.                                 *)
(*                                                                         *)
(* A transport is a sequence of bytes still to be read (wire) plus an      *)
(* end-of-stream flag (eof); one step of a read loop takes a non-empty     *)
(* prefix of the wire (at most READ_SIZE bytes) and runs _process on it,   *)
(* or sees the end of the stream.  Everything a coroutine does between two *)
(* suspension points is one action.                                        *)
(***************************************************************************)
EXTENDS Integers, Sequences, FiniteSets, TLC

VARIABLES
    cs,         \* control sessions (MyTurnClient objects), by slot
    fm_client,  \* ForeverMyTurnClient._client: 0 is None, else a slot
    runs,       \* the live ForeverMyTurnClient.run() coroutines
    timers,     \* pending loop.call_later(5.0, self.start) handles
    disp,       \* the handler dispatches made by the last step
    ds,         \* the data session (LocalDataClient) with its bridge
    dlog        \* what the last step of the data session did

vars == <<cs, fm_client, runs, timers, disp, ds, dlog>>

----------------------------------------------------------------------------
(* Bounds of the model *)

\* frames or stray bytes the relay sends to one control session
MaxSends == 2
\* control session objects alive at once (dead ones are collected)
MaxSessions == 2
\* frames or stray bytes the relay sends to the data session
MaxDataSends == 2
\* chunks the local service sends to the bridge
MaxLocalSends == 1

----------------------------------------------------------------------------
(* message.py: Head and Command *)

SYNC_BYTE == 170

HeadSize == 4

Command ==
    [Allocation |-> 1, AllocationAck |-> 2, ConnectionBind |-> 3,
     ConnectionBindAck |-> 4, ConnectionAttamp |-> 5]

CommandValues == {Command.Allocation, Command.AllocationAck, Command.ConnectionBind,
                  Command.ConnectionBindAck, Command.ConnectionAttamp}

\* msg.Head.read(buf): the header fields of a buffer of at least HeadSize bytes
HeadRead(buf) == [command |-> buf[2], sequence |-> buf[3], payload_len |-> buf[4]]

\* head.write(): the header bytes
HeadWrite(head) == <<SYNC_BYTE, head.command, head.sequence, head.payload_len>>

Min(a, b) == IF a < b THEN a ELSE b

\* Python's buf[a:b] on 0-based offsets, which truncates at the end of buf
Slice(buf, a, b) == SubSeq(buf, a + 1, Min(b, Len(buf)))

----------------------------------------------------------------------------
(* json: a JSON object text is "{", one byte per member, "}" *)

J ==
    [lb |-> 123, rb |-> 125,
     code200 |-> 50, code500 |-> 53, relay |-> 60, software |-> 61,
     cid1 |-> 71, cid2 |-> 72,
     addr_ok |-> 80, addr_nocolon |-> 81, addr_badport |-> 82]

Members == {J.code200, J.code500, J.relay, J.software, J.cid1, J.cid2,
            J.addr_ok, J.addr_nocolon, J.addr_badport}

\* json.loads(payload.decode()): ok is FALSE when it raises
JsonLoads(p) ==
    IF /\ Len(p) >= 2
       /\ p[1] = J.lb
       /\ p[Len(p)] = J.rb
       /\ \A k \in 2..(Len(p) - 1) : p[k] \in Members
    THEN [ok |-> TRUE, obj |-> {p[k] : k \in 2..(Len(p) - 1)}]
    ELSE [ok |-> FALSE, obj |-> {}]

\* json.dumps(obj).encode() of an object with the one member m
JsonDumps(m) == <<J.lb, m, J.rb>>

\* payload['code'] / payload.get('code'): 0 stands for a missing key
GetCode(obj) ==
    IF J.code200 \in obj THEN 200 ELSE IF J.code500 \in obj THEN 500 ELSE 0

\* payload.get('connection_id'): "" stands for None
GetConnectionId(obj) ==
    IF J.cid1 \in obj THEN "c1" ELSE IF J.cid2 \in obj THEN "c2" ELSE ""

\* payload.get('data_address').split(':'): << >> stands for None
GetDataAddress(obj) ==
    IF J.addr_ok \in obj THEN <<"10.0.0.5", "9000">>
    ELSE IF J.addr_nocolon \in obj THEN <<"10.0.0.5">>
    ELSE IF J.addr_badport \in obj THEN <<"10.0.0.5", "ssh">>
    ELSE << >>

\* int(text): -1 stands for ValueError
IntOf(text) == IF text = "9000" THEN 9000 ELSE -1

----------------------------------------------------------------------------
(* BaseTcpClient *)

READ_SIZE == 1024

\* close() without the test of _is_closing
Close_noGuard(c) ==
    [c EXCEPT !.closing = TRUE,
              !.closes = @ + 1,
              !.task = IF @ = "running" THEN "cancelled" ELSE @,
              !.cancel_req = (c.task = "handler")]

\* BaseTcpClient.close(): w.close() and _read_task.cancel().  A read task waiting in
\* read() ends cancelled; one suspended inside a handler gets the cancellation
\* thrown in there (cancel_req); a task that runs close() itself is at its end.
\* closes counts the runs of lines 36-41, the part behind the test.
Close(c) ==
    IF c.closing THEN c
    ELSE [c EXCEPT !.closing = TRUE,
                   !.closes = @ + 1,
                   !.task = IF @ = "running" THEN "cancelled" ELSE @,
                   !.cancel_req = (c.task = "handler")]

\* the non-empty prefixes of the wire that one read can return
ChunkSizes(wire) == 1..Min(Len(wire), READ_SIZE)

----------------------------------------------------------------------------
(* MyTurnClient *)

MyTurnClient_MAX_SEQ == 65536

ConnectionIds == {"c1", "c2"}

\* no data session: what _data_clients has for an absent key
NoDc == [id |-> 0, connection_id |-> "", host |-> "", port |-> 0]

\* _data_clients = {}
NoClients == [k \in ConnectionIds |-> NoDc]

\* a slot that holds no object
Blank ==
    [st |-> "none", cb |-> FALSE, closing |-> FALSE, closes |-> 0,
     cancel_req |-> FALSE, task |-> "none",
     buf |-> << >>, seq |-> 0, allocated |-> FALSE, clients |-> NoClients,
     ndc |-> 0, started |-> << >>, dc_closed |-> {}, out |-> << >>,
     wire |-> << >>, eof |-> FALSE, sent |-> 0, cb_calls |-> 0]

\* MyTurnClient(host, port) followed by set_cb(disconnected_cb)
Fresh == [Blank EXCEPT !.st = "new", !.cb = TRUE]

\* MyTurnClient._send_msg
CtlSendMsg(c, command, sequence, payload) ==
    [c EXCEPT !.out = @ \o HeadWrite([command |-> command, sequence |-> sequence,
                                      payload_len |-> Len(payload)]) \o payload]

\* MyTurnClient.allocate
Allocate(c) == CtlSendMsg(c, Command.Allocation, 0, JsonDumps(J.software))

\* MyTurnClient.connected, after connect() has set r and w; then the read task starts
CtlConnected(c) ==
    [Allocate([c EXCEPT !.buf = << >>, !.seq = 0, !.allocated = FALSE,
                        !.clients = NoClients])
        EXCEPT !.st = "connected", !.task = "running"]

\* process_AllocationAck without the test of the code
process_AllocationAck_anyCode(c, head, payload) ==
    LET j == JsonLoads(payload) IN
    IF ~j.ok \/ GetCode(j.obj) = 0 THEN [raised |-> TRUE, c |-> c]
    ELSE IF J.relay \notin j.obj THEN [raised |-> TRUE, c |-> c]
    ELSE [raised |-> FALSE, c |-> [c EXCEPT !.allocated = TRUE]]

\* MyTurnClient.process_AllocationAck: raised is TRUE when it raises
process_AllocationAck(c, head, payload) ==
    LET j == JsonLoads(payload) IN
    IF ~j.ok \/ GetCode(j.obj) = 0 THEN [raised |-> TRUE, c |-> c]
    ELSE IF GetCode(j.obj) # 200 THEN [raised |-> TRUE, c |-> c]
    ELSE IF J.relay \notin j.obj THEN [raised |-> TRUE, c |-> c]
    ELSE [raised |-> FALSE, c |-> [c EXCEPT !.allocated = TRUE]]

\* process_ConnectionAttamp without the assignment to _data_clients
process_ConnectionAttamp_noMap(c, head, payload) ==
    LET j == JsonLoads(payload)
        connection_id == GetConnectionId(j.obj)
        v == GetDataAddress(j.obj)
    IN
    IF ~j.ok THEN [raised |-> TRUE, c |-> c]
    ELSE IF connection_id = "" \/ v = << >> THEN [raised |-> TRUE, c |-> c]
    ELSE IF Len(v) < 2 \/ IntOf(v[2]) < 0 THEN [raised |-> TRUE, c |-> c]
    ELSE LET dc == [id |-> c.ndc + 1, connection_id |-> connection_id,
                    host |-> v[1], port |-> IntOf(v[2])]
         IN [raised |-> FALSE,
             c |-> [c EXCEPT !.ndc = @ + 1, !.started = Append(@, dc)]]

\* MyTurnClient.process_ConnectionAttamp; dc.start() schedules dc.connect()
process_ConnectionAttamp(c, head, payload) ==
    LET j == JsonLoads(payload)
        connection_id == GetConnectionId(j.obj)
        v == GetDataAddress(j.obj)
    IN
    IF ~j.ok THEN [raised |-> TRUE, c |-> c]
    ELSE IF connection_id = "" \/ v = << >> THEN [raised |-> TRUE, c |-> c]
    ELSE IF Len(v) < 2 \/ IntOf(v[2]) < 0
         THEN [raised |-> TRUE, c |-> c]     \* dc is unbound at the assignment
    ELSE LET dc == [id |-> c.ndc + 1, connection_id |-> connection_id,
                    host |-> v[1], port |-> IntOf(v[2])]
         IN [raised |-> FALSE,
             c |-> [c EXCEPT !.ndc = @ + 1,
                             !.started = Append(@, dc),
                             !.clients[connection_id] = dc]]

\* the dispatch that closes the session on an ordinal outside Command
CtlHandle_closeOnUnknown(c, head, payload) ==
    IF head.command \notin CommandValues THEN [raised |-> FALSE, c |-> Close(c)]
    ELSE IF head.command = Command.AllocationAck
         THEN process_AllocationAck(c, head, payload)
    ELSE IF head.command = Command.ConnectionAttamp
         THEN process_ConnectionAttamp(c, head, payload)
    ELSE [raised |-> TRUE, c |-> c]

\* lines 289-291: msg.Command(head.command) raises for an unknown ordinal, getattr
\* for a command without a process_<name> method
CtlHandle(c, head, payload) ==
    IF head.command \notin CommandValues THEN [raised |-> TRUE, c |-> c]
    ELSE IF head.command = Command.AllocationAck
         THEN process_AllocationAck(c, head, payload)
    ELSE IF head.command = Command.ConnectionAttamp
         THEN process_ConnectionAttamp(c, head, payload)
    ELSE [raised |-> TRUE, c |-> c]

\* the handler call without the try/except: what it raises ends the read loop
CtlDispatch_reraise(c, head, payload) ==
    LET h == CtlHandle(c, head, payload)
    IN IF h.raised THEN [h.c EXCEPT !.task = "crashed"] ELSE h.c

\* the try/except around the handler call in MyTurnClient._process: lines 288-293
CtlDispatch(c, head, payload) == CtlHandle(c, head, payload).c

\* the test before the break with <= for <
HoldBack_orEqual(head, buf) == head.payload_len + HeadSize <= Len(buf)

\* the frame is held back while this holds (the test before the break)
HoldBack(head, buf) == head.payload_len + HeadSize < Len(buf)

\* the while loop of MyTurnClient._process, on r = [c, disp, dropped]; dropped
\* counts the runs of line 279, del self._buf[0]
RECURSIVE CtlLoop(_)
CtlLoop(r) ==
    LET buf == r.c.buf IN
    IF Len(buf) < HeadSize THEN r
    ELSE IF buf[1] # SYNC_BYTE
         THEN CtlLoop([r EXCEPT !.c.buf = Tail(@), !.dropped = @ + 1])
    ELSE LET head == HeadRead(buf)
             n == head.payload_len + HeadSize
         IN
         IF HoldBack(head, buf) THEN r
         ELSE LET payload == Slice(buf, HeadSize, n)
                  c2 == CtlDispatch(r.c, head, payload)
              IN CtlLoop([c |-> [c2 EXCEPT !.buf = Slice(@, n, Len(@))],
                          disp |-> Append(r.disp,
                                          [head |-> head, payload |-> payload,
                                           dropped |-> r.dropped]),
                          dropped |-> r.dropped])

\* MyTurnClient._process(chunk)
CtlProcess(c, chunk) ==
    CtlLoop([c |-> [c EXCEPT !.buf = @ \o chunk], disp |-> << >>, dropped |-> 0])

\* MyTurnClient.disconnected, apart from what the callback does
CtlDisconnected(c) == IF c.cb THEN [c EXCEPT !.cb_calls = @ + 1] ELSE c

\* on_client_disconnected without the call_later
on_client_disconnected_noRestart(f) == [client |-> 0, timers |-> f.timers]

\* ForeverMyTurnClient.on_client_disconnected, on f = [client, timers]
on_client_disconnected(f) == [client |-> 0, timers |-> f.timers + 1]

----------------------------------------------------------------------------
(* ForeverMyTurnClient *)

Slots == 1..MaxSessions

\* an object nothing will run again: never connected and closed, or its read task over
Dead(c) ==
    \/ c.st = "none"
    \/ c.st = "failed" /\ c.closing
    \/ c.task \in {"done", "cancelled", "crashed"}

\* the slots the next MyTurnClient(...) may take, once self._client is reassigned:
\* dead objects that no other run() still waits on
FreeSlots(others) == {k \in Slots : Dead(cs[k]) /\ \A q \in DOMAIN others : others[q].s # k}

RemoveAt(seq, p) == SubSeq(seq, 1, p - 1) \o SubSeq(seq, p + 1, Len(seq))

\* lines 370-373: a new MyTurnClient in slot k, set_cb, and run() p waits on its connect()
NewClient(p, k, why) ==
    /\ cs' = [q \in Slots |-> IF q = k THEN Fresh
                              ELSE IF q \in FreeSlots(RemoveAt(runs, p)) THEN Blank
                              ELSE cs[q]]
    /\ fm_client' = k
    /\ runs' = [runs EXCEPT ![p] = [pc |-> "connecting", s |-> k, why |-> why]]

\* run() up to its first suspension: lines 366-373
RunBegin(p) ==
    /\ p \in DOMAIN runs
    /\ runs[p].pc = "start"
    /\ IF fm_client # 0
       THEN /\ runs' = RemoveAt(runs, p)
            /\ UNCHANGED <<cs, fm_client>>
       ELSE /\ FreeSlots(RemoveAt(runs, p)) # {}
            /\ NewClient(p, CHOOSE k \in FreeSlots(RemoveAt(runs, p)) :
                                \A q \in FreeSlots(RemoveAt(runs, p)) : k <= q,
                         runs[p].why)
    /\ disp' = << >>
    /\ UNCHANGED <<timers, ds, dlog>>

\* run() without the break of line 374: after a success the loop goes round again
ConnectOk_noBreak(p) ==
    /\ p \in DOMAIN runs
    /\ runs[p].pc = "connecting"
    /\ cs' = [cs EXCEPT ![runs[p].s] = CtlConnected(@)]
    /\ runs' = [runs EXCEPT ![p].pc = "sleeping"]
    /\ disp' = << >>
    /\ UNCHANGED <<fm_client, timers, ds, dlog>>

\* connect() of the awaited session completes within the timeout: lines 29-31, then 374
ConnectOk(p) ==
    /\ p \in DOMAIN runs
    /\ runs[p].pc = "connecting"
    /\ cs' = [cs EXCEPT ![runs[p].s] = CtlConnected(@)]
    /\ runs' = RemoveAt(runs, p)
    /\ disp' = << >>
    /\ UNCHANGED <<fm_client, timers, ds, dlog>>

\* connect() raises or wait_for times out: lines 375-378
ConnectFail(p) ==
    /\ p \in DOMAIN runs
    /\ runs[p].pc = "connecting"
    /\ IF fm_client = 0
       THEN \* None.close() raises out of run()
            /\ cs' = [cs EXCEPT ![runs[p].s].st = "failed"]
            /\ runs' = [runs EXCEPT ![p].pc = "crashed"]
       ELSE /\ cs' = [q \in Slots |->
                        LET c == IF q = runs[p].s THEN [cs[q] EXCEPT !.st = "failed"]
                                 ELSE cs[q]
                        IN IF q = fm_client THEN Close(c) ELSE c]
            /\ runs' = [runs EXCEPT ![p].pc = "sleeping"]
    /\ disp' = << >>
    /\ UNCHANGED <<fm_client, timers, ds, dlog>>

\* asyncio.sleep(5.0) is over: line 379, then 370-373
SleepDone(p) ==
    /\ p \in DOMAIN runs
    /\ runs[p].pc = "sleeping"
    /\ FreeSlots(RemoveAt(runs, p)) # {}
    /\ NewClient(p, CHOOSE k \in FreeSlots(RemoveAt(runs, p)) :
                        \A q \in FreeSlots(RemoveAt(runs, p)) : k <= q,
                 "failure")
    /\ disp' = << >>
    /\ UNCHANGED <<timers, ds, dlog>>

\* the call_later handle fires: start() schedules a run()
TimerFire ==
    /\ timers > 0
    /\ timers' = timers - 1
    /\ runs' = Append(runs, [pc |-> "start", s |-> 0, why |-> "disconnect"])
    /\ disp' = << >>
    /\ UNCHANGED <<cs, fm_client, ds, dlog>>

----------------------------------------------------------------------------
(* The relay's end of a control connection *)

Frame(command, payload) ==
    HeadWrite([command |-> command, sequence |-> 0, payload_len |-> Len(payload)])
        \o payload

\* what the relay may send in one go: well-formed frames and one stray byte
CtlMenu ==
    { Frame(Command.AllocationAck, <<J.lb, J.code200, J.relay, J.rb>>),
      Frame(Command.AllocationAck, <<J.lb, J.code500, J.relay, J.rb>>),
      Frame(Command.AllocationAck, <<J.lb, J.code200, J.rb>>),
      Frame(Command.ConnectionAttamp, <<J.lb, J.cid1, J.addr_ok, J.rb>>),
      Frame(Command.ConnectionAttamp, <<J.lb, J.cid1, J.rb>>),
      Frame(Command.ConnectionAttamp, <<J.lb, J.cid1, J.addr_nocolon, J.rb>>),
      Frame(Command.ConnectionAttamp, <<J.lb, J.cid2, J.addr_badport, J.rb>>),
      Frame(Command.ConnectionAttamp, <<J.lb, J.cid1, J.addr_ok>>),
      Frame(Command.ConnectionBind, << >>),
      Frame(9, << >>),
      <<255>> }

PeerSend(k, bytes) ==
    /\ cs[k].st = "connected"
    /\ ~cs[k].eof
    /\ cs[k].sent < MaxSends
    /\ cs' = [cs EXCEPT ![k].wire = @ \o bytes, ![k].sent = @ + 1]
    /\ disp' = << >>
    /\ UNCHANGED <<fm_client, runs, timers, ds, dlog>>

PeerClose(k) ==
    /\ cs[k].st = "connected"
    /\ ~cs[k].eof
    /\ cs' = [cs EXCEPT ![k].eof = TRUE]
    /\ disp' = << >>
    /\ UNCHANGED <<fm_client, runs, timers, ds, dlog>>

----------------------------------------------------------------------------
(* The control session's read loop *)

\* one turn of _read_loop that reads n bytes: lines 46-52
CtlRead(k, n) ==
    /\ cs[k].task = "running"
    /\ n \in ChunkSizes(cs[k].wire)
    /\ LET r == CtlProcess([cs[k] EXCEPT !.wire = SubSeq(@, n + 1, Len(@))],
                           SubSeq(cs[k].wire, 1, n))
       IN /\ cs' = [cs EXCEPT ![k] = r.c]
          /\ disp' = [q \in DOMAIN r.disp |->
                        [who |-> k, head |-> r.disp[q].head, payload |-> r.disp[q].payload,
                         dropped |-> r.disp[q].dropped]]
    /\ UNCHANGED <<fm_client, runs, timers, ds, dlog>>

\* read returns b'': lines 47-48, then disconnected() and close(): lines 54-55;
\* the callback is ForeverMyTurnClient.on_client_disconnected: lines 382-384
CtlEof(k) ==
    /\ cs[k].task = "running"
    /\ cs[k].wire = << >>
    /\ cs[k].eof
    /\ cs' = [cs EXCEPT ![k] = [Close(CtlDisconnected(@)) EXCEPT !.task = "done"]]
    /\ IF cs[k].cb
       THEN LET f == on_client_disconnected([client |-> fm_client, timers |-> timers])
            IN fm_client' = f.client /\ timers' = f.timers
       ELSE UNCHANGED <<fm_client, timers>>
    /\ disp' = << >>
    /\ UNCHANGED <<runs, ds, dlog>>

\* close() called on a control session by the code that embeds the client
CtlClose(k) ==
    /\ cs[k].st \in {"new", "connected"}
    /\ cs' = [cs EXCEPT ![k] = Close(@)]
    /\ disp' = << >>
    /\ UNCHANGED <<fm_client, runs, timers, ds, dlog>>

\* the connection of data session id, which control session k started, closes: its
\* connect() fails, or its read loop ends and runs disconnected() and close().  A
\* data session holds no reference to the control session or to _data_clients,
\* so all that changes there is that this session is now a closed one.
DcClose(k, id) ==
    /\ id \in 1..cs[k].ndc
    /\ id \notin cs[k].dc_closed
    /\ cs' = [cs EXCEPT ![k].dc_closed = @ \cup {id}]
    /\ disp' = << >>
    /\ UNCHANGED <<fm_client, runs, timers, ds, dlog>>

----------------------------------------------------------------------------
(* BaseDataClient, LocalDataClient and LocalClient *)

BaseDataClient_MAX_SEQ == 32

\* _gen_seq: the new value of _seq, which is also what it returns
GenSeq(seq, max_seq) == IF seq + 1 >= max_seq THEN 0 ELSE seq + 1

\* LocalDataClient._local_client = None
NoLc ==
    [exists |-> FALSE, w |-> FALSE, closing |-> FALSE, closes |-> 0,
     cancel_req |-> FALSE, task |-> "none", wire |-> << >>, eof |-> FALSE, sent |-> 0]

\* LocalClient(LOCAL_PORT) followed by set_data_client(weakref.ref(self))
NewLc == [NoLc EXCEPT !.exists = TRUE]

NoData ==
    [st |-> "none", closing |-> FALSE, closes |-> 0, cancel_req |-> FALSE,
     task |-> "none",
     connection_id |-> "", binded |-> FALSE, buf |-> << >>, seq |-> 0, pend |-> 0,
     out |-> << >>, wire |-> << >>, eof |-> FALSE, sent |-> 0,
     lc |-> NoLc, lsend |-> << >>, post |-> << >>, nack |-> FALSE]

\* LocalDataClient(connection_id, host, port) followed by start(): lines 328-329
NewData(connection_id) == [NoData EXCEPT !.st = "new", !.connection_id = connection_id]

CidMember(connection_id) == IF connection_id = "c1" THEN J.cid1 ELSE J.cid2

\* BaseDataClient.bind with send_request and _send_msg: lines 142-159
Bind(d) ==
    LET payload == JsonDumps(CidMember(d.connection_id))
        sequence == GenSeq(d.seq, BaseDataClient_MAX_SEQ)
    IN [d EXCEPT !.seq = sequence,
                 !.out = @ \o HeadWrite([command |-> Command.ConnectionBind,
                                         sequence |-> sequence,
                                         payload_len |-> Len(payload)]) \o payload]

\* BaseDataClient.connected, after connect() has set r and w; then the read task starts
DataConnected(d) == [Bind(d) EXCEPT !.st = "connected", !.task = "running"]

\* process_ConnectionBindAck that takes any code for a success
Base_process_ConnectionBindAck_anyCode(d, head, payload) ==
    LET j == JsonLoads(payload) IN
    IF j.ok /\ GetCode(j.obj) # 0 THEN [d EXCEPT !.binded = TRUE]
    ELSE [d EXCEPT !.nack = TRUE]

\* BaseDataClient.process_ConnectionBindAck: every exception is caught inside;
\* nack records that the handler ran and left the session unbound
Base_process_ConnectionBindAck(d, head, payload) ==
    LET j == JsonLoads(payload) IN
    IF j.ok /\ GetCode(j.obj) = 200 THEN [d EXCEPT !.binded = TRUE]
    ELSE [d EXCEPT !.nack = TRUE]

\* process_ConnectionBindAck that makes the bridge without the test of _is_binded
process_ConnectionBindAck_eagerBridge(d, head, payload) ==
    LET d1 == Base_process_ConnectionBindAck(d, head, payload) IN
    [d1 EXCEPT !.lc = NewLc, !.task = "handler"]

\* LocalDataClient.process_ConnectionBindAck up to its suspension in
\* self._local_client.connect(): task "handler" is the read task waiting there
process_ConnectionBindAck(d, head, payload) ==
    LET d1 == Base_process_ConnectionBindAck(d, head, payload) IN
    IF d1.binded THEN [d1 EXCEPT !.lc = NewLc, !.task = "handler"] ELSE d1

\* BaseTcpClient.send of the bridge, called with bytes: self.w is None until connected
LocalSend(d, bytes) ==
    IF d.lc.w THEN [d EXCEPT !.lsend = @ \o bytes]
    ELSE [d EXCEPT !.task = "crashed"]

\* LocalDataClient.process_binded_data
process_binded_data(d, bytes) == IF d.lc.exists THEN LocalSend(d, bytes) ELSE d

\* lines 130-136 inside the try: raised is TRUE when the lookup or the handler raises
DataHandle(d, head, payload) ==
    IF head.command \notin CommandValues THEN [raised |-> TRUE, d |-> d]
    ELSE IF head.command = Command.ConnectionBindAck
         THEN [raised |-> FALSE, d |-> process_ConnectionBindAck(d, head, payload)]
    ELSE [raised |-> TRUE, d |-> d]

\* the try/except around the handler call in BaseDataClient._process: lines 129-138
DataDispatch(d, head, payload) == DataHandle(d, head, payload).d

\* the while loop of BaseDataClient._process, on r = [d, disp]; it stops where the
\* handler suspends, with the frame's length kept for line 140
RECURSIVE DataLoop(_)
DataLoop(r) ==
    LET buf == r.d.buf IN
    IF Len(buf) < HeadSize THEN r
    ELSE IF buf[1] # SYNC_BYTE THEN DataLoop([r EXCEPT !.d.buf = Tail(@)])
    ELSE LET head == HeadRead(buf)
             n == head.payload_len + HeadSize
         IN
         IF HoldBack(head, buf) THEN r
         ELSE LET payload == Slice(buf, HeadSize, n)
                  d2 == DataDispatch(r.d, head, payload)
                  log == Append(r.disp, [head |-> head, payload |-> payload])
              IN IF d2.task = "handler"
                 THEN [d |-> [d2 EXCEPT !.pend = n], disp |-> log]
                 ELSE DataLoop([d |-> [d2 EXCEPT !.buf = Slice(@, n, Len(@))],
                                disp |-> log])

\* line 140 and the rest of the loop, once the handler has returned
DataResume(d) ==
    DataLoop([d |-> [d EXCEPT !.buf = Slice(@, d.pend, Len(@)), !.pend = 0,
                              !.task = "running", !.cancel_req = FALSE],
              disp |-> << >>])

\* _process without the test of _is_binded: every chunk goes to the decoder
DataProcess_noSwitch(d, chunk) ==
    DataLoop([d |-> [d EXCEPT !.buf = @ \o chunk], disp |-> << >>])

\* BaseDataClient._process(chunk): lines 100-140
DataProcess(d, chunk) ==
    IF d.binded
    THEN [d |-> IF Len(d.buf) > 0
                THEN LET d1 == process_binded_data(d, d.buf)
                     IN IF d1.task = "crashed" THEN d1 ELSE [d1 EXCEPT !.buf = << >>]
                ELSE process_binded_data(d, chunk),
          disp |-> << >>]
    ELSE DataLoop([d |-> [d EXCEPT !.buf = @ \o chunk], disp |-> << >>])

\* LocalDataClient.disconnected: lines 243-246
DataDisconnected(d) == IF d.lc.exists THEN [d EXCEPT !.lc = Close(@)] ELSE d

\* LocalClient._process: d.send(buf) writes to the data transport
LocalProcess(d, chunk) == [d EXCEPT !.out = @ \o chunk]

\* LocalClient.disconnected: d.close() on the data session
LocalDisconnected(d) == Close(d)

NoLog ==
    [op |-> "other", chunk |-> << >>, binded |-> FALSE, bridge |-> FALSE,
     decoded |-> FALSE, fwd |-> << >>, disp |-> << >>]

\* the bytes a step passed to the bridge's send
Forwarded(before, after) == SubSeq(after.lsend, Len(before.lsend) + 1, Len(after.lsend))

----------------------------------------------------------------------------
(* The data session's tasks *)

\* connect() of the data session completes: lines 29-31 with lines 92-94
DataConnectOk ==
    /\ ds.st = "new"
    /\ ds' = DataConnected(ds)
    /\ dlog' = NoLog
    /\ UNCHANGED <<cs, fm_client, runs, timers, disp>>

\* connect() raises inside the task start() made: nothing catches it
DataConnectFail ==
    /\ ds.st = "new"
    /\ ds' = [ds EXCEPT !.st = "failed"]
    /\ dlog' = NoLog
    /\ UNCHANGED <<cs, fm_client, runs, timers, disp>>

\* one turn of _read_loop that reads n bytes: lines 46-52
DataRead(n) ==
    /\ ds.task = "running"
    /\ n \in ChunkSizes(ds.wire)
    /\ LET chunk == SubSeq(ds.wire, 1, n)
           bridge == ds.binded /\ ds.lc.w
           d0 == [ds EXCEPT !.wire = SubSeq(@, n + 1, Len(@)),
                            !.post = IF bridge THEN @ \o chunk ELSE @]
           r == DataProcess(d0, chunk)
       IN /\ ds' = r.d
          /\ dlog' = [op |-> "read", chunk |-> chunk, binded |-> ds.binded,
                      bridge |-> bridge,
                      decoded |-> (r.d.buf # ds.buf \/ r.disp # << >>),
                      fwd |-> Forwarded(ds, r.d), disp |-> r.disp]
    /\ UNCHANGED <<cs, fm_client, runs, timers, disp>>

\* read returns b'': lines 47-48, then disconnected() and close(): lines 54-55
DataEof ==
    /\ ds.task = "running"
    /\ ds.wire = << >>
    /\ ds.eof
    /\ ds' = [Close(DataDisconnected(ds)) EXCEPT !.task = "done"]
    /\ dlog' = [NoLog EXCEPT !.op = "eof"]
    /\ UNCHANGED <<cs, fm_client, runs, timers, disp>>

\* the bridge's connect() completes inside the handler: lines 234-235, then line 140
LocalConnectOk ==
    /\ ds.task = "handler"
    /\ ~ds.cancel_req
    /\ LET r == DataResume([ds EXCEPT !.lc.w = TRUE, !.lc.task = "running"])
       IN /\ ds' = r.d
          /\ dlog' = [NoLog EXCEPT !.op = "resume", !.disp = r.disp]
    /\ UNCHANGED <<cs, fm_client, runs, timers, disp>>

\* the bridge's connect() raises: lines 236-237, then line 140
LocalConnectFail ==
    /\ ds.task = "handler"
    /\ ~ds.cancel_req
    /\ LET r == DataResume(ds)
       IN /\ ds' = r.d
          /\ dlog' = [NoLog EXCEPT !.op = "resume", !.disp = r.disp]
    /\ UNCHANGED <<cs, fm_client, runs, timers, disp>>

\* close() came while the handler waited: the CancelledError is thrown into
\* connect() and caught by line 236, so the read loop goes on, on a transport that
\* close() has closed: what had already arrived (m bytes) is read, then b''
HandlerCancelled(m) ==
    /\ ds.task = "handler"
    /\ ds.cancel_req
    /\ m \in 0..Len(ds.wire)
    /\ LET r == DataResume([ds EXCEPT !.wire = SubSeq(@, 1, m), !.eof = TRUE])
       IN /\ ds' = r.d
          /\ dlog' = [NoLog EXCEPT !.op = "resume", !.disp = r.disp]
    /\ UNCHANGED <<cs, fm_client, runs, timers, disp>>

\* one turn of the bridge's _read_loop that reads n bytes
LocalRead(n) ==
    /\ ds.lc.task = "running"
    /\ n \in ChunkSizes(ds.lc.wire)
    /\ ds' = LocalProcess([ds EXCEPT !.lc.wire = SubSeq(@, n + 1, Len(@))],
                          SubSeq(ds.lc.wire, 1, n))
    /\ dlog' = NoLog
    /\ UNCHANGED <<cs, fm_client, runs, timers, disp>>

\* the bridge reads b'': LocalClient.disconnected() and close(): lines 54-55, 197-203
LocalEof ==
    /\ ds.lc.task = "running"
    /\ ds.lc.wire = << >>
    /\ ds.lc.eof
    /\ ds' = [LocalDisconnected(ds) EXCEPT !.lc = [Close(@) EXCEPT !.task = "done"]]
    /\ dlog' = NoLog
    /\ UNCHANGED <<cs, fm_client, runs, timers, disp>>

\* close() called on the data session from outside its own tasks; the log tells a
\* call on a session that was closing already ("reclose") from a first one
DataClose ==
    /\ ds.st \in {"new", "connected"}
    /\ ds' = Close(ds)
    /\ dlog' = [NoLog EXCEPT !.op = IF ds.closing THEN "reclose" ELSE "close"]
    /\ UNCHANGED <<cs, fm_client, runs, timers, disp>>

\* close() called on the bridge from outside its own tasks
LocalClose ==
    /\ ds.lc.exists
    /\ ds' = [ds EXCEPT !.lc = Close(@)]
    /\ dlog' = [NoLog EXCEPT !.op = IF ds.lc.closing THEN "lreclose" ELSE "lclose"]
    /\ UNCHANGED <<cs, fm_client, runs, timers, disp>>

----------------------------------------------------------------------------
(* The relay's end of the data connection, and the local service *)

DataMenu ==
    { Frame(Command.ConnectionBindAck, <<J.lb, J.code200, J.rb>>),
      Frame(Command.ConnectionBindAck, <<J.lb, J.code500, J.rb>>),
      Frame(Command.ConnectionBindAck, <<J.lb, J.code200>>),
      Frame(Command.AllocationAck, << >>),
      <<255>> }

RelaySend(bytes) ==
    /\ ds.st = "connected"
    /\ ~ds.eof
    /\ ~ds.closing
    /\ ds.sent < MaxDataSends
    /\ ds' = [ds EXCEPT !.wire = @ \o bytes, !.sent = @ + 1]
    /\ dlog' = NoLog
    /\ UNCHANGED <<cs, fm_client, runs, timers, disp>>

RelayClose ==
    /\ ds.st = "connected"
    /\ ~ds.eof
    /\ ~ds.closing
    /\ ds' = [ds EXCEPT !.eof = TRUE]
    /\ dlog' = NoLog
    /\ UNCHANGED <<cs, fm_client, runs, timers, disp>>

LocalMenu == { <<1>>, <<SYNC_BYTE, 2>> }

ServiceSend(bytes) ==
    /\ ds.lc.w
    /\ ~ds.lc.eof
    /\ ~ds.lc.closing
    /\ ds.lc.sent < MaxLocalSends
    /\ ds' = [ds EXCEPT !.lc.wire = @ \o bytes, !.lc.sent = @ + 1]
    /\ dlog' = NoLog
    /\ UNCHANGED <<cs, fm_client, runs, timers, disp>>

ServiceClose ==
    /\ ds.lc.w
    /\ ~ds.lc.eof
    /\ ~ds.lc.closing
    /\ ds' = [ds EXCEPT !.lc.eof = TRUE]
    /\ dlog' = NoLog
    /\ UNCHANGED <<cs, fm_client, runs, timers, disp>>

----------------------------------------------------------------------------
(* Specifications *)

Init ==
    /\ cs = [k \in Slots |-> Blank]
    /\ fm_client = 0
    /\ runs = <<[pc |-> "start", s |-> 0, why |-> "boot"]>>
    /\ timers = 0
    /\ disp = << >>
    /\ ds = NoData
    /\ dlog = NoLog

\* the script: ForeverMyTurnClient(...).start(); loop.run_forever()
Next ==
    \/ \E p \in DOMAIN runs : RunBegin(p)
    \/ \E p \in DOMAIN runs : ConnectOk(p)
    \/ \E p \in DOMAIN runs : ConnectFail(p)
    \/ \E p \in DOMAIN runs : SleepDone(p)
    \/ TimerFire
    \/ \E k \in Slots : \E bytes \in CtlMenu : PeerSend(k, bytes)
    \/ \E k \in Slots : PeerClose(k)
    \/ \E k \in Slots : \E n \in 1..Len(cs[k].wire) : CtlRead(k, n)
    \/ \E k \in Slots : CtlEof(k)

Spec == Init /\ [][Next]_vars

\* the event loop runs a scheduled run(), asyncio.sleep(5.0) ends and a call_later
\* handle fires; nothing is assumed of the relay, nor of how soon bytes are read
Fairness ==
    /\ WF_vars(\E p \in DOMAIN runs : RunBegin(p))
    /\ WF_vars(\E p \in DOMAIN runs : SleepDone(p))
    /\ WF_vars(TimerFire)

SpecLive == Spec /\ Fairness

\* the classes used by code that may also call close() on the control session
NextApi ==
    \/ Next
    \/ \E k \in Slots : CtlClose(k)

SpecApi == Init /\ [][NextApi]_vars

\* the same, with the connections of the started data sessions closing
NextMap ==
    \/ NextApi
    \/ \E k \in Slots : \E id \in 1..cs[k].ndc : DcClose(k, id)

SpecMap == Init /\ [][NextMap]_vars

\* a call of MyTurnClient._gen_seq: lines 347-351
CtlGenSeq(k) ==
    /\ cs[k].st = "connected"
    /\ cs' = [cs EXCEPT ![k].seq = GenSeq(@, MyTurnClient_MAX_SEQ)]
    /\ disp' = << >>
    /\ UNCHANGED <<fm_client, runs, timers, ds, dlog>>

\* a call of BaseDataClient._gen_seq: lines 161-165
DataGenSeq ==
    /\ ds.st = "new"
    /\ ds' = [ds EXCEPT !.seq = GenSeq(@, BaseDataClient_MAX_SEQ)]
    /\ dlog' = NoLog
    /\ UNCHANGED <<cs, fm_client, runs, timers, disp>>

\* a fresh session of either class: a control session after connected() has set
\* _seq, or a data session after __init__
InitSeq ==
    /\ \/ cs = [k \in Slots |-> IF k = 1 THEN CtlConnected(Fresh) ELSE Blank] /\ ds = NoData
       \/ cs = [k \in Slots |-> Blank] /\ ds = NewData("c1")
    /\ fm_client = 0
    /\ runs = << >>
    /\ timers = 0
    /\ disp = << >>
    /\ dlog = NoLog

\* the generator called over and over
NextSeq ==
    \/ \E k \in Slots : CtlGenSeq(k)
    \/ DataGenSeq

SpecSeq == InitSeq /\ [][NextSeq]_vars

\* one data session, as process_ConnectionAttamp creates and starts it
InitData ==
    /\ cs = [k \in Slots |-> Blank]
    /\ fm_client = 0
    /\ runs = << >>
    /\ timers = 0
    /\ disp = << >>
    /\ ds = NewData("c1")
    /\ dlog = NoLog

NextData ==
    \/ DataConnectOk
    \/ DataConnectFail
    \/ \E n \in 1..Len(ds.wire) : DataRead(n)
    \/ DataEof
    \/ LocalConnectOk
    \/ LocalConnectFail
    \/ \E m \in 0..Len(ds.wire) : HandlerCancelled(m)
    \/ \E n \in 1..Len(ds.lc.wire) : LocalRead(n)
    \/ LocalEof
    \/ DataClose
    \/ LocalClose
    \/ \E bytes \in DataMenu : RelaySend(bytes)
    \/ RelayClose
    \/ \E bytes \in LocalMenu : ServiceSend(bytes)
    \/ ServiceClose

SpecData == InitData /\ [][NextData]_vars

\* the event loop runs the read loops when there is something to read, and a
\* connect attempt ends; nothing is assumed of the relay or of the local service
DataFairness ==
    /\ WF_vars(DataConnectOk \/ DataConnectFail)
    /\ WF_vars(\E n \in 1..Len(ds.wire) : DataRead(n))
    /\ WF_vars(DataEof)
    /\ WF_vars(LocalConnectOk \/ LocalConnectFail)
    /\ WF_vars(\E m \in 0..Len(ds.wire) : HandlerCancelled(m))
    /\ WF_vars(\E n \in 1..Len(ds.lc.wire) : LocalRead(n))
    /\ WF_vars(LocalEof)

SpecDataLive == SpecData /\ DataFairness

----------------------------------------------------------------------------
(* Properties of the control session and of the reconnector *)

\* the parsed payload of a dispatch
Obj(d) == JsonLoads(d.payload).obj

IsAck(d) == d.head.command = Command.AllocationAck /\ JsonLoads(d.payload).ok

IsAttempt(d) == d.head.command = Command.ConnectionAttamp

\* a ConnectionAttempt with connection_id and a data_address "host:port", port an integer
GoodAttempt(d) ==
    /\ IsAttempt(d)
    /\ JsonLoads(d.payload).ok
    /\ GetConnectionId(Obj(d)) # ""
    /\ Len(GetDataAddress(Obj(d))) >= 2
    /\ IntOf(GetDataAddress(Obj(d))[2]) >= 0

BadAttempt(d) == IsAttempt(d) /\ ~GoodAttempt(d)

\* C1: after a step in which a control session dispatched an AllocationAck whose
\* code is not 200, that session is closing and its disconnect callback has told
\* the reconnector.
C1_AllocationFailureCloses ==
    \A q \in DOMAIN disp :
        (IsAck(disp[q]) /\ GetCode(Obj(disp[q])) \notin {0, 200})
            => (cs[disp[q].who].closing /\ cs[disp[q].who].cb_calls >= 1)

\* C3: of a single well-formed frame sent to a control session, the handler is
\* called with the whole payload: a dispatch never happens on a proper prefix of
\* the frame.
C3_HandlerGetsWholeFrame ==
    \A q \in DOMAIN disp :
        cs[disp[q].who].sent = 1 => Len(disp[q].payload) = disp[q].head.payload_len

\* C5: a control session that connected with a callback registered and whose read
\* loop is over (the remote end closed, or close() was called) has had its
\* callback called exactly once.
C5_CallbackOncePerClose ==
    \A k \in Slots :
        (cs[k].cb /\ cs[k].task \in {"done", "cancelled"}) => cs[k].cb_calls = 1

NoneConnected == \A k \in Slots : ~(cs[k].st = "connected" /\ ~cs[k].closing)

Attempting(why) == \E p \in DOMAIN runs : runs[p].pc = "connecting" /\ runs[p].why \in why

\* C6: under fair scheduling, a failed or timed-out attempt leaves its session
\* closed while the reconnector waits and is followed by an attempt with a newly
\* constructed session, a fired disconnect callback is
\* followed by an attempt, and whenever no control session is connected an
\* attempt is eventually under way.
C6_ReconnectorNeverGivesUp ==
    /\ [](\A p \in DOMAIN runs :
            runs[p].pc = "sleeping"
               => (fm_client # 0 /\ cs[fm_client].st = "failed" /\ cs[fm_client].closing))
    /\ (\E p \in DOMAIN runs : runs[p].pc = "sleeping")
          ~> (\E p \in DOMAIN runs : /\ runs[p].pc = "connecting"
                                     /\ runs[p].why = "failure"
                                     /\ cs[runs[p].s] = Fresh)
    /\ (timers > 0) ~> Attempting({"disconnect"})
    /\ NoneConnected ~> Attempting({"boot", "failure", "disconnect"})

\* a second attempt is under way after a connected session was disconnected
C6_Witness ==
    \E p \in DOMAIN runs :
        /\ runs[p].pc = "connecting"
        /\ runs[p].why = "disconnect"
        /\ cs[runs[p].s] = Fresh

\* C7: allocated is FALSE when a control session connects, and it becomes TRUE
\* only in a step in which that session dispatched an AllocationAck whose payload
\* parses and has code 200.
C7_AllocatedOnlyByAck200 ==
    [][\A k \in Slots :
          /\ (cs[k].st = "new" /\ cs'[k].st = "connected") => ~cs'[k].allocated
          /\ (cs[k].st = "connected" /\ cs'[k].st = "connected"
                /\ ~cs[k].allocated /\ cs'[k].allocated)
               => \E q \in DOMAIN disp' :
                     /\ disp'[q].who = k
                     /\ IsAck(disp'[q])
                     /\ GetCode(Obj(disp'[q])) = 200]_vars

\* a session was allocated by the AllocationAck it has just dispatched
C7_Witness ==
    \E q \in DOMAIN disp :
        /\ IsAck(disp[q])
        /\ GetCode(Obj(disp[q])) = 200
        /\ cs[disp[q].who].allocated

\* C8: in the step in which a control session dispatches a ConnectionAttempt with
\* connection_id c and data_address host:port, a data session with a new identity
\* is created for (c, host, port), its connect is started, and the map entry of c
\* is that data session.
C8_AttemptSpawnsDataSession ==
    [][\A q \in DOMAIN disp' :
          (/\ GoodAttempt(disp'[q])
           /\ \A q2 \in DOMAIN disp' :
                 (q2 > q /\ GoodAttempt(disp'[q2]))
                    => GetConnectionId(Obj(disp'[q2])) # GetConnectionId(Obj(disp'[q])))
            => LET k == disp'[q].who
                   v == GetDataAddress(Obj(disp'[q]))
                   dc == cs'[k].clients[GetConnectionId(Obj(disp'[q]))]
               IN /\ dc.id > cs[k].ndc
                  /\ dc.connection_id = GetConnectionId(Obj(disp'[q]))
                  /\ dc.host = v[1]
                  /\ dc.port = IntOf(v[2])
                  /\ \E a \in (Len(cs[k].started) + 1)..Len(cs'[k].started) :
                        cs'[k].started[a] = dc]_vars

\* a data session for c1 at 10.0.0.5:9000 is in the map after its ConnectionAttempt
C8_Witness ==
    \E q \in DOMAIN disp :
        /\ GoodAttempt(disp[q])
        /\ cs[disp[q].who].clients["c1"].id >= 1
        /\ cs[disp[q].who].clients["c1"].host = "10.0.0.5"
        /\ cs[disp[q].who].clients["c1"].port = 9000

\* C9: a step in which a control session dispatches only ConnectionAttempts that
\* are malformed (bad JSON, a missing field, an address without an integer port)
\* leaves the read loop running and the session open, takes the frame's bytes out
\* of the buffer, creates and starts no data session, and leaves the map and
\* allocated as they were.
C9_BadAttemptIsDropped ==
    [][\A k \in Slots :
          (/\ disp' # << >>
           /\ \A q \in DOMAIN disp' : disp'[q].who = k /\ BadAttempt(disp'[q]))
            => /\ cs'[k].task = "running"
               /\ ~cs'[k].closing
               /\ cs'[k].clients = cs[k].clients
               /\ cs'[k].allocated = cs[k].allocated
               /\ cs'[k].ndc = cs[k].ndc
               /\ cs'[k].started = cs[k].started
               /\ \A q \in DOMAIN disp' :
                     Len(cs'[k].buf) + HeadSize + Len(disp'[q].payload)
                        <= Len(cs[k].buf) + Len(cs[k].wire) - Len(cs'[k].wire)]_vars

\* an allocated session has just dropped a ConnectionAttempt whose JSON lacks a field
\* or has a bad address, and is still reading
C9_Witness ==
    \E q \in DOMAIN disp :
        /\ BadAttempt(disp[q])
        /\ JsonLoads(disp[q].payload).ok
        /\ cs[disp[q].who].allocated
        /\ cs[disp[q].who].task = "running"

----------------------------------------------------------------------------
(* Properties of the data session and its bridge *)

\* C2: once the data session is bound and its bridge connected, a chunk read from
\* the data transport is passed to the bridge's send unchanged, is not put through
\* the decoder and dispatches nothing; what the bridge was sent is what was read
\* since then, in order.
C2_BoundBytesGoToBridge ==
    /\ (dlog.op = "read" /\ dlog.bridge)
          => (dlog.fwd = dlog.chunk /\ ~dlog.decoded /\ dlog.disp = << >>)
    /\ (ds.binded /\ ds.lc.w) => ds.lsend = ds.post

\* a chunk that is a whole frame has just been relayed to the connected bridge
C2_Witness ==
    /\ dlog.op = "read"
    /\ dlog.bridge
    /\ Len(dlog.chunk) >= HeadSize
    /\ dlog.chunk[1] = SYNC_BYTE
    /\ dlog.chunk[2] \in CommandValues
    /\ dlog.fwd = dlog.chunk

\* C4: after a bind whose bridge failed to connect, no exception leaves _process
\* or the read loop: the read task never ends with an exception.
C4_NoEscapeAfterBridgeFailure ==
    (ds.binded /\ ds.lc.exists /\ ~ds.lc.w) => ds.task # "crashed"

Paired == ds.binded /\ ds.lc.w

\* C10: for a bound data session with a connected bridge, once either of the two
\* is closed the other is eventually closed.
C10_PairedTeardown ==
    /\ (Paired /\ ds.closing) ~> ds.lc.closing
    /\ (Paired /\ ds.lc.closing) ~> ds.closing

----------------------------------------------------------------------------
(* Properties of close(), of the decoder and of the sequence numbers *)

\* C11: close() is idempotent: on the data session and on its bridge the part of
\* close() that closes the transport and cancels the read task runs at most once,
\* whoever calls close() (the session's own read loop, the other session's
\* disconnected(), or outside code), and a close() on a session that is closing
\* already changes nothing.
C11_CloseIsIdempotent ==
    [][ /\ ds'.closes <= 1
        /\ ds'.lc.closes <= 1
        /\ (ds.closing => ds'.closes = ds.closes)
        /\ (ds.lc.closing => ds'.lc.closes = ds.lc.closes)
        /\ (dlog'.op \in {"reclose", "lreclose"} => ds' = ds) ]_vars

\* close() was called on the data session after the bridge's end of stream had
\* closed both, and on the bridge after that
C11_Witness ==
    /\ dlog.op \in {"reclose", "lreclose"}
    /\ ds.closing /\ ds.closes = 1
    /\ ds.lc.closing /\ ds.lc.closes = 1
    /\ ds.lc.task = "done"

\* the buffer starts with a whole frame, header and payload
CompleteFrameAtHead(buf) ==
    /\ Len(buf) >= HeadSize
    /\ buf[1] = SYNC_BYTE
    /\ HeadRead(buf).payload_len + HeadSize <= Len(buf)

\* what follows the first frame of the buffer
AfterFrame(buf) == Slice(buf, HeadRead(buf).payload_len + HeadSize, Len(buf))

\* C12: frames are dispatched however the stream is cut into reads: when _process
\* has returned and the read loop waits for more, the reassembly buffer does not
\* hold a complete frame, alone or with the start of the next frame behind it,
\* that was not dispatched.
C12_NoCompleteFrameLeftBehind ==
    \A k \in Slots :
        (cs[k].task = "running" /\ CompleteFrameAtHead(cs[k].buf))
            => (AfterFrame(cs[k].buf) # << >> /\ AfterFrame(cs[k].buf)[1] # SYNC_BYTE)

\* the step is a read of control session k: bytes left its transport
IsCtlRead(k) == cs'[k].sent = cs[k].sent /\ Len(cs'[k].wire) < Len(cs[k].wire)

\* what that read returned
ChunkRead(k) == SubSeq(cs[k].wire, 1, Len(cs[k].wire) - Len(cs'[k].wire))

\* input is K bytes other than the sync byte followed by exactly one whole frame
GarbageThenFrame(input, K) ==
    /\ K + HeadSize <= Len(input)
    /\ \A i \in 1..K : input[i] # SYNC_BYTE
    /\ CompleteFrameAtHead(SubSeq(input, K + 1, Len(input)))
    /\ AfterFrame(SubSeq(input, K + 1, Len(input))) = << >>

\* C13: a read that brings, into an empty reassembly buffer, K >= 0 bytes other
\* than the sync byte followed by one whole frame ends with exactly one dispatch,
\* of that frame's command and whole payload, made after exactly K bytes were
\* dropped one by one, and with the buffer empty again.
C13_ResyncThenOneDispatch ==
    [][ \A k \in Slots : \A K \in 0..Len(cs[k].wire) :
            (IsCtlRead(k) /\ cs[k].buf = << >> /\ GarbageThenFrame(ChunkRead(k), K))
                => LET frame == SubSeq(ChunkRead(k), K + 1, Len(ChunkRead(k)))
                   IN /\ disp' = <<[who |-> k, head |-> HeadRead(frame),
                                    payload |-> SubSeq(frame, HeadSize + 1, Len(frame)),
                                    dropped |-> K]>>
                      /\ cs'[k].buf = << >> ]_vars

\* a stray byte and a frame with a payload came in one read, and the frame was
\* dispatched whole after the stray byte was dropped
C13_Witness ==
    \E k \in Slots :
        /\ Len(disp) = 1
        /\ disp[1].who = k
        /\ disp[1].dropped = 1
        /\ disp[1].head.payload_len > 0
        /\ Len(disp[1].payload) = disp[1].head.payload_len
        /\ cs[k].buf = << >>
        /\ cs[k].allocated

\* the buffer starts with a whole ConnectionBindAck frame that carries code 200
BindAckAtHead(buf) ==
    /\ CompleteFrameAtHead(buf)
    /\ HeadRead(buf).command = Command.ConnectionBindAck
    /\ LET j == JsonLoads(Slice(buf, HeadSize, HeadRead(buf).payload_len + HeadSize))
       IN j.ok /\ GetCode(j.obj) = 200

\* C14: no byte received behind the ConnectionBindAck frame is lost at the
\* switch: when the read loop waits for more, the bytes that came with a
\* successful ConnectionBindAck are not left in the reassembly buffer behind that
\* frame on a session that is still unbound, and on a bound session with its
\* bridge connected the buffer is empty and the bridge was passed every byte read
\* since the bind.
C14_NoByteLostAtSwitch ==
    /\ (ds.task = "running" /\ ~ds.binded) => ~BindAckAtHead(ds.buf)
    /\ (ds.binded /\ ds.lc.w) => (ds.buf = << >> /\ ds.lsend = ds.post)

\* a dispatch for which MyTurnClient has no handler: an ordinal outside Command, or
\* a Command without a process_<name> method
IsUnhandled(d) == d.head.command \notin {Command.AllocationAck, Command.ConnectionAttamp}

\* C16: a read of a control session that dispatches only frames without a
\* handler consumes them and changes nothing else: the session is not closed, its
\* read loop goes on, its allocated flag, session map, sequence counter and
\* output are as before, and the reconnector is not told anything.
C16_UnhandledFrameIsIgnored ==
    [][ \A k \in Slots :
            ( /\ IsCtlRead(k)
              /\ disp' # << >>
              /\ \A q \in DOMAIN disp' : disp'[q].who = k /\ IsUnhandled(disp'[q]) )
                => /\ cs'[k] = [cs[k] EXCEPT !.wire = cs'[k].wire, !.buf = << >>]
                   /\ cs'[k].task = "running"
                   /\ ~cs'[k].closing
                   /\ UNCHANGED <<fm_client, runs, timers>> ]_vars

\* an allocated session has just dispatched a frame whose command is no member of
\* Command, and reads on
C16_Witness ==
    \E k \in Slots :
        /\ Len(disp) = 1
        /\ disp[1].who = k
        /\ disp[1].head.command \notin CommandValues
        /\ cs[k].allocated
        /\ cs[k].task = "running"
        /\ ~cs[k].closing

\* C17: the session map holds no data session whose connection has closed, and
\* once the control session is closing all the data sessions it started are
\* closed and none is left in the map.
C17_MapHoldsOnlyOpenSessions ==
    \A k \in Slots :
        /\ \A connection_id \in ConnectionIds :
              cs[k].clients[connection_id].id # 0
                  => cs[k].clients[connection_id].id \notin cs[k].dc_closed
        /\ cs[k].closing
              => /\ \A connection_id \in ConnectionIds :
                       cs[k].clients[connection_id].id = 0
                 /\ \A id \in 1..cs[k].ndc : id \in cs[k].dc_closed

\* C18: on a control session and on a data session alike each call of _gen_seq
\* returns the previous value plus one modulo 65536: 1 first, 0 after 65535, and
\* 1 after 0.
C18_SequenceWrapsAt65536 ==
    [][ /\ \A k \in Slots :
              cs'[k].seq # cs[k].seq => cs'[k].seq = (cs[k].seq + 1) % 65536
        /\ ds'.seq # ds.seq => ds'.seq = (ds.seq + 1) % 65536 ]_vars

\* C19: under the reconnector at most one control session is connected and not
\* closed at any time, and at most one run() loop is making sessions (waiting on
\* a connect() or sleeping before the next attempt).
C19_OneSessionOneLoop ==
    /\ Cardinality({k \in Slots : cs[k].st = "connected" /\ ~cs[k].closing}) <= 1
    /\ Cardinality({p \in DOMAIN runs : runs[p].pc \in {"connecting", "sleeping"}}) <= 1

\* the run() that the delayed start() began after a disconnect callback has had
\* its connect() fail and sleeps before the next attempt: it is the only loop,
\* and no session is connected
C19_Witness ==
    /\ Len(runs) = 1
    /\ runs[1].pc = "sleeping"
    /\ runs[1].why = "disconnect"
    /\ cs[runs[1].s].closing
    /\ NoneConnected

----------------------------------------------------------------------------
(* Properties of the data session's bind *)

\* a dispatch of a ConnectionBindAck whose payload is not a JSON object with code 200
IsFailedBindAck(d) ==
    /\ d.head.command = Command.ConnectionBindAck
    /\ ~(JsonLoads(d.payload).ok /\ GetCode(Obj(d)) = 200)

IsGoodBindAck(d) ==
    /\ d.head.command = Command.ConnectionBindAck
    /\ JsonLoads(d.payload).ok /\ GetCode(Obj(d)) = 200

\* C15 as stated: once a data session has dispatched a failed ConnectionBindAck it
\* stays unbound and without a bridge and writes nothing more, and it is closed
\* only by the remote end's disconnect or by a close() call.
C15_BindFailureLeavesInert ==
    [][ (ds.nack /\ ~ds.binded)
            => /\ ~ds'.binded
               /\ ~ds'.lc.exists
               /\ ds'.out = ds.out
               /\ (ds'.closing # ds.closing => dlog'.op \in {"eof", "close"}) ]_vars

\* C15, amended: the step that dispatches a failed ConnectionBindAck leaves the
\* session unbound, open, without a bridge, its read loop running, and writes
\* nothing; from then on the session writes nothing (no second ConnectionBind),
\* has no bridge while it is unbound, is closed only by the remote end's
\* disconnect or by a close() call, and becomes bound only by dispatching a later
\* ConnectionBindAck with code 200.
C15_BindFailureLeavesUnboundUntilAck ==
    [][ /\ (~ds.binded /\ \E q \in DOMAIN dlog'.disp : IsFailedBindAck(dlog'.disp[q]))
            => /\ ds'.nack
               /\ ~ds'.binded
               /\ ~ds'.lc.exists
               /\ ds'.closing = ds.closing
               /\ ds'.out = ds.out
               /\ ds'.task = "running"
        /\ (ds.nack /\ ~ds.binded)
            => /\ ds'.binded => \E q \in DOMAIN dlog'.disp : IsGoodBindAck(dlog'.disp[q])
               /\ ~ds'.binded => ~ds'.lc.exists
               /\ ds'.out = ds.out
               /\ (ds'.closing # ds.closing => dlog'.op \in {"eof", "close"}) ]_vars

\* the session has just dispatched a ConnectionBindAck with code 500 and is open,
\* unbound and reading
C15_Witness ==
    /\ ds.st = "connected" /\ ~ds.closing /\ ds.task = "running"
    /\ ds.nack /\ ~ds.binded /\ ~ds.lc.exists
    /\ \E q \in DOMAIN dlog.disp :
          /\ IsFailedBindAck(dlog.disp[q])
          /\ GetCode(Obj(dlog.disp[q])) = 500

\* the one ConnectionBind frame of a data session: sequence 1, its own connection_id
OwnBindFrame ==
    <<SYNC_BYTE, Command.ConnectionBind, 1, 3, J.lb, CidMember(ds.connection_id), J.rb>>

\* a bridge only on a bound session; an unbound session has written nothing before
\* it connected and exactly its ConnectionBind frame since
BridgeOnlyWhenBound ==
    /\ ds.lc.exists => ds.binded
    /\ (~ds.binded /\ ds.st = "connected") => ds.out = OwnBindFrame
    /\ (~ds.binded /\ ds.st # "connected") => ds.out = << >>

\* C20: on a data session a bridge exists only once a ConnectionBindAck with code
\* 200 has bound it, the bound flag never goes back from true to false, and while
\* the session is unbound all it has written to the data transport is the one
\* ConnectionBind frame with its own connection_id: no byte of the local service.
C20_BindBeforeForward ==
    /\ []BridgeOnlyWhenBound
    /\ [][ /\ ds.binded => ds'.binded
           /\ (~ds.binded /\ ds'.binded)
                 => \E q \in DOMAIN dlog'.disp : IsGoodBindAck(dlog'.disp[q]) ]_vars

\* a bound session whose bridge has passed bytes of the local service on to the
\* data transport, behind the ConnectionBind frame
C20_Witness ==
    /\ ds.binded /\ ds.lc.w
    /\ Len(ds.out) > Len(OwnBindFrame)
    /\ SubSeq(ds.out, 1, Len(OwnBindFrame)) = OwnBindFrame


====
